---- MODULE Spec2Model ----
(***************************************************************************)
(* Model of the object-oriented teaching examples of fc-poo:               *)
(*   - ContadorUsuarios (static counters)        src/unnamed/part_000      *)
(*   - Pessoa (getters and setters)              src/unnamed/part_000      *)
(*   - ConfiguracaoApp / Logger / ContadorGlobal src/src/singleton.ts      *)
(*   - ContaBancaria                             src/src/heranca.ts        *)
(*   - Animal and its subclasses                 src/src/polimorfismo.ts   *)
(*   - the same statements run by two interleaved callers (section 5)      *)
(* The examples are independent programs: each has its own next-state      *)
(* relation and specification over the shared initial state.               *)
(***************************************************************************)
EXTENDS Integers, Sequences, FiniteSets, TLC

VARIABLES
    totalUsuarios,  \* ContadorUsuarios.totalUsuarios (static)
    proximoId,      \* ContadorUsuarios.proximoId (static)
    usuarios,       \* the ContadorUsuarios instances constructed so far, in order
    ultC,           \* the last ContadorUsuarios operation and what it returned
    idsDesdeReset,  \* history: the ids handed out since the last reset, in order
    houveReset,     \* history: resetarContador has run at least once
    pessoa,         \* the Pessoa object p: its private fields _nome and _idade
    ultP,           \* the last Pessoa operation and what it returned
    instancia,      \* the static field instancia of each singleton class (0: undefined)
    objetos,        \* the heap: every singleton object constructed, by reference
    refs,           \* the references getInstance has returned, per class
    ultS,           \* the last singleton operation and what it returned
    liquido,        \* history: incrementar calls minus decrementar calls since the
                    \* last resetar (or since the start)
    contas,         \* the ContaBancaria objects, by numeroConta: created or not, saldo
    ultB,           \* the last ContaBancaria operation, its outcome, the balances before
    animais,        \* polimorfismo.ts: the array animais (empty before line 47)
    console,        \* polimorfismo.ts: the lines written to the console, in order
    pcA,            \* polimorfismo.ts: the part of the script that runs next
    iA,             \* polimorfismo.ts: the index of the running forEach / the next call
    modo,           \* concurrent callers: "parado", then "livre" (the source as it is)
                    \* or "exclusao" (the two sections made mutually exclusive)
    pcT,            \* concurrent callers: the statement each caller runs next
    localT,         \* concurrent callers: what each caller has read so far
    tranca          \* concurrent callers: the holder of each section's lock (0: free)

varsContador == <<totalUsuarios, proximoId, usuarios, ultC, idsDesdeReset, houveReset>>
varsPessoa == <<pessoa, ultP>>
varsSingleton == <<instancia, objetos, refs, ultS, liquido>>
varsConta == <<contas, ultB>>
varsAnimal == <<animais, console, pcA, iA>>
varsConcorrente == <<modo, pcT, localT, tranca>>

----------------------------------------------------------------------------
(* Bounds *)

MaxUsuarios == 3
MaxLogs == 2
MaxContador == 2
MaxSaldo == 3

----------------------------------------------------------------------------
(* ContadorUsuarios *)

IDADE_MINIMA == 18
IDADE_MAXIMA == 120

\* the ages and names the callers try
Idades == {0, IDADE_MINIMA - 1, IDADE_MINIMA, IDADE_MAXIMA, IDADE_MAXIMA + 1}
Nomes == {"Joao", "Maria"}

validarIdadeSemMinimo(idade) ==
    idade > IDADE_MINIMA /\ idade <= IDADE_MAXIMA

validarIdade(idade) ==
    idade >= IDADE_MINIMA /\ idade <= IDADE_MAXIMA

InitContador ==
    /\ totalUsuarios = 0
    /\ proximoId = 1
    /\ usuarios = <<>>
    /\ ultC = [op |-> "nenhuma", idade |-> 0, erro |-> FALSE, id |-> 0,
               totalAntes |-> 0, proximoAntes |-> 1, ret |-> 0]
    /\ idsDesdeReset = <<>>
    /\ houveReset = FALSE

\* a constructor that takes the id before it validates the age
ConstrutorIncrementaAntes(op, nome, idade) ==
    IF ~validarIdade(idade)
    THEN /\ proximoId' = proximoId + 1
         /\ ultC' = [op |-> op, idade |-> idade, erro |-> TRUE, id |-> 0,
                     totalAntes |-> totalUsuarios, proximoAntes |-> proximoId,
                     ret |-> 0]
         /\ UNCHANGED <<totalUsuarios, usuarios, idsDesdeReset, houveReset>>
    ELSE /\ proximoId' = proximoId + 1
         /\ totalUsuarios' = totalUsuarios + 1
         /\ usuarios' = Append(usuarios,
                               [id |-> proximoId, nome |-> nome, idade |-> idade])
         /\ ultC' = [op |-> op, idade |-> idade, erro |-> FALSE, id |-> proximoId,
                     totalAntes |-> totalUsuarios, proximoAntes |-> proximoId,
                     ret |-> 0]
         /\ idsDesdeReset' = Append(idsDesdeReset, proximoId)
         /\ UNCHANGED houveReset

\* a constructor that "rolls back" the total when the age is rejected
ConstrutorDesfazAoFalhar(op, nome, idade) ==
    IF ~validarIdade(idade)
    THEN /\ totalUsuarios' = totalUsuarios - 1
         /\ ultC' = [op |-> op, idade |-> idade, erro |-> TRUE, id |-> 0,
                     totalAntes |-> totalUsuarios, proximoAntes |-> proximoId,
                     ret |-> 0]
         /\ UNCHANGED <<proximoId, usuarios, idsDesdeReset, houveReset>>
    ELSE /\ proximoId' = proximoId + 1
         /\ totalUsuarios' = totalUsuarios + 1
         /\ usuarios' = Append(usuarios,
                               [id |-> proximoId, nome |-> nome, idade |-> idade])
         /\ ultC' = [op |-> op, idade |-> idade, erro |-> FALSE, id |-> proximoId,
                     totalAntes |-> totalUsuarios, proximoAntes |-> proximoId,
                     ret |-> 0]
         /\ idsDesdeReset' = Append(idsDesdeReset, proximoId)
         /\ UNCHANGED houveReset

\* new ContadorUsuarios(nome, idade), reached as operation op
Construtor(op, nome, idade) ==
    IF ~validarIdade(idade)
    THEN \* throw new Error("Idade deve estar entre ...")
         /\ ultC' = [op |-> op, idade |-> idade, erro |-> TRUE, id |-> 0,
                     totalAntes |-> totalUsuarios, proximoAntes |-> proximoId,
                     ret |-> 0]
         /\ UNCHANGED <<totalUsuarios, proximoId, usuarios, idsDesdeReset, houveReset>>
    ELSE \* this.id = proximoId++; ...; totalUsuarios++
         /\ proximoId' = proximoId + 1
         /\ totalUsuarios' = totalUsuarios + 1
         /\ usuarios' = Append(usuarios,
                               [id |-> proximoId, nome |-> nome, idade |-> idade])
         /\ ultC' = [op |-> op, idade |-> idade, erro |-> FALSE, id |-> proximoId,
                     totalAntes |-> totalUsuarios, proximoAntes |-> proximoId,
                     ret |-> 0]
         /\ idsDesdeReset' = Append(idsDesdeReset, proximoId)
         /\ UNCHANGED houveReset

NovoContadorUsuarios ==
    \E nome \in Nomes, idade \in Idades :
        /\ Len(usuarios) < MaxUsuarios
        /\ Construtor("new", nome, idade)

criarUsuarioAdulto ==
    \E nome \in Nomes :
        /\ Len(usuarios) < MaxUsuarios
        /\ Construtor("criarUsuarioAdulto", nome, IDADE_MINIMA)

resetarContadorSoTotal ==
    /\ totalUsuarios' = 0
    /\ ultC' = [op |-> "resetarContador", idade |-> 0, erro |-> FALSE, id |-> 0,
                totalAntes |-> totalUsuarios, proximoAntes |-> proximoId,
                ret |-> 0]
    /\ idsDesdeReset' = <<>>
    /\ houveReset' = TRUE
    /\ UNCHANGED <<proximoId, usuarios>>

\* a reset that leaves the total where it was
resetarContadorSoProximoId ==
    /\ proximoId' = 1
    /\ ultC' = [op |-> "resetarContador", idade |-> 0, erro |-> FALSE, id |-> 0,
                totalAntes |-> totalUsuarios, proximoAntes |-> proximoId,
                ret |-> 0]
    /\ idsDesdeReset' = <<>>
    /\ houveReset' = TRUE
    /\ UNCHANGED <<totalUsuarios, usuarios>>

resetarContador ==
    /\ totalUsuarios' = 0
    /\ proximoId' = 1
    /\ ultC' = [op |-> "resetarContador", idade |-> 0, erro |-> FALSE, id |-> 0,
                totalAntes |-> totalUsuarios, proximoAntes |-> proximoId,
                ret |-> 0]
    /\ idsDesdeReset' = <<>>
    /\ houveReset' = TRUE
    /\ UNCHANGED usuarios

getTotalUsuarios ==
    /\ ultC' = [op |-> "getTotalUsuarios", idade |-> 0, erro |-> FALSE, id |-> 0,
                totalAntes |-> totalUsuarios, proximoAntes |-> proximoId,
                ret |-> totalUsuarios]
    /\ UNCHANGED <<totalUsuarios, proximoId, usuarios, idsDesdeReset, houveReset>>

compararIdade ==
    \E i \in 1..Len(usuarios), j \in 1..Len(usuarios) :
        /\ ultC' = [op |-> "compararIdade", idade |-> 0, erro |-> FALSE, id |-> 0,
                    totalAntes |-> totalUsuarios, proximoAntes |-> proximoId,
                    ret |-> usuarios[i].idade - usuarios[j].idade]
        /\ UNCHANGED <<totalUsuarios, proximoId, usuarios, idsDesdeReset, houveReset>>

\* getId / getNome / getIdade / getInfo of one instance
getIdUsuario ==
    \E i \in 1..Len(usuarios) :
        /\ ultC' = [op |-> "getId", idade |-> usuarios[i].idade, erro |-> FALSE,
                    id |-> usuarios[i].id,
                    totalAntes |-> totalUsuarios, proximoAntes |-> proximoId,
                    ret |-> usuarios[i].id]
        /\ UNCHANGED <<totalUsuarios, proximoId, usuarios, idsDesdeReset, houveReset>>

NextContador ==
    \/ NovoContadorUsuarios /\ UNCHANGED <<varsPessoa, varsSingleton, varsConta, varsAnimal, varsConcorrente>>
    \/ criarUsuarioAdulto /\ UNCHANGED <<varsPessoa, varsSingleton, varsConta, varsAnimal, varsConcorrente>>
    \/ resetarContador /\ UNCHANGED <<varsPessoa, varsSingleton, varsConta, varsAnimal, varsConcorrente>>
    \/ getTotalUsuarios /\ UNCHANGED <<varsPessoa, varsSingleton, varsConta, varsAnimal, varsConcorrente>>
    \/ compararIdade /\ UNCHANGED <<varsPessoa, varsSingleton, varsConta, varsAnimal, varsConcorrente>>
    \/ getIdUsuario /\ UNCHANGED <<varsPessoa, varsSingleton, varsConta, varsAnimal, varsConcorrente>>

----------------------------------------------------------------------------
(* Pessoa *)

\* A JavaScript number: a finite value n (f: plus a fractional part, n being
\* its floor), NaN, +Infinity or -Infinity.
Fin(n) == [k |-> "fin", n |-> n, f |-> FALSE]
Frac(n) == [k |-> "fin", n |-> n, f |-> TRUE]
NaN == [k |-> "nan", n |-> 0, f |-> FALSE]
Infinito == [k |-> "inf", n |-> 0, f |-> FALSE]
MenosInfinito == [k |-> "ninf", n |-> 0, f |-> FALSE]

\* Number.isInteger(v), Number.isFinite(v)
NumberIsInteger(v) == v.k = "fin" /\ ~v.f
NumberIsFinite(v) == v.k = "fin"

\* v < i and v >= i for an integer literal i (false whenever v is NaN)
MenorQue(v, i) == v.k = "ninf" \/ (v.k = "fin" /\ v.n < i)
MaiorOuIgual(v, i) == v.k = "inf" \/ (v.k = "fin" /\ v.n >= i)

\* a >= b and a > b on numbers without fractional part (false with a NaN)
MaiorIgualNum(a, b) ==
    /\ a.k # "nan"
    /\ b.k # "nan"
    /\ (a.k = "inf" \/ b.k = "ninf" \/ (a.k = "fin" /\ b.k = "fin" /\ a.n >= b.n))
MaiorNum(a, b) == a.k # "nan" /\ b.k # "nan" /\ ~MaiorIgualNum(b, a)

\* -a, a + b and a - b on numbers without fractional part
Neg(a) ==
    CASE a.k = "fin" -> Fin(-a.n)
      [] a.k = "inf" -> MenosInfinito
      [] a.k = "ninf" -> Infinito
      [] OTHER -> NaN
Soma(a, b) ==
    CASE a.k = "nan" \/ b.k = "nan" -> NaN
      [] a.k = "fin" /\ b.k = "fin" -> Fin(a.n + b.n)
      [] a.k = "fin" -> b
      [] b.k = "fin" -> a
      [] a.k = b.k -> a
      [] OTHER -> NaN
Subtrai(a, b) == Soma(a, Neg(b))

\* String.prototype.trim on a string held as a sequence of characters
RECURSIVE TrimInicio(_)
TrimInicio(s) ==
    IF s # <<>> /\ Head(s) = " " THEN TrimInicio(Tail(s)) ELSE s

RECURSIVE TrimFim(_)
TrimFim(s) ==
    IF s # <<>> /\ s[Len(s)] = " " THEN TrimFim(SubSeq(s, 1, Len(s) - 1)) ELSE s

Trim(s) == TrimFim(TrimInicio(s))

\* the values and names the callers assign
ValoresIdade == {Fin(-5), Fin(0), Fin(17), Fin(18), Fin(31),
                 Frac(-1), Frac(17), Frac(30), NaN, Infinito}
NomesPessoa == {<<"R">>, <<" ", " ", "R", " ", " ">>, <<"A", " ", "B", " ">>, <<" ">>}

SemPessoa == [criada |-> FALSE, nome |-> <<>>, idade |-> Fin(0)]

\* antes: _idade when the call started; previa: the call before this one
ResultadoP(op, valor, erro) ==
    [op |-> op, valor |-> valor, erro |-> erro, antes |-> pessoa.idade,
     lido |-> Fin(0), adulto |-> FALSE, info |-> <<>>,
     previa |-> [op |-> ultP.op, valor |-> ultP.valor, erro |-> ultP.erro,
                 antes |-> ultP.antes]]

InitPessoa ==
    /\ pessoa = SemPessoa
    /\ ultP = [op |-> "nenhuma", valor |-> Fin(0), erro |-> FALSE,
               antes |-> Fin(0), lido |-> Fin(0), adulto |-> FALSE, info |-> <<>>,
               previa |-> [op |-> "nenhuma", valor |-> Fin(0), erro |-> FALSE,
                           antes |-> Fin(0)]]

\* a setter that assigns first and validates afterwards
setIdadeAtribuiAntes(obj, valor) ==
    [erro |-> ~NumberIsInteger(valor) \/ MenorQue(valor, 0),
     obj |-> [obj EXCEPT !.idade = valor]]

\* set idade(valor): the outcome (thrown or not) and the object afterwards
setIdade(obj, valor) ==
    IF ~NumberIsInteger(valor) \/ MenorQue(valor, 0)
    THEN [erro |-> TRUE, obj |-> obj]
    ELSE [erro |-> FALSE, obj |-> [obj EXCEPT !.idade = valor]]

\* an ehAdulto that compares with > instead of >=
ehAdultoMaiorQue(obj) == MaiorOuIgual(obj.idade, 19)

\* get ehAdulto
ehAdulto(obj) == MaiorOuIgual(obj.idade, 18)

\* get info: `${_nome} - ${_idade} anos${ehAdulto ? ' (adulto)' : ''}`, held as
\* the tuple of its pieces; _idade, an integer, is written in decimal
info(obj) ==
    <<obj.nome, " - ", ToString(obj.idade.n), " anos",
      IF ehAdulto(obj) THEN " (adulto)" ELSE "">>

\* new Pessoa(nome, idade): an exception of the setter leaves no object
NovaPessoa ==
    \E nome \in NomesPessoa, valor \in ValoresIdade :
        /\ ~pessoa.criada
        /\ LET r == setIdade([criada |-> TRUE, nome |-> Trim(nome), idade |-> Fin(0)],
                             valor)
           IN /\ pessoa' = IF r.erro THEN pessoa ELSE r.obj
              /\ ultP' = ResultadoP("new", valor, r.erro)

\* p.idade = valor
AtribuirIdade ==
    \E valor \in ValoresIdade :
        /\ pessoa.criada
        /\ LET r == setIdade(pessoa, valor)
           IN /\ pessoa' = r.obj
              /\ ultP' = ResultadoP("set idade", valor, r.erro)

\* p.nome = valor
AtribuirNome ==
    \E nome \in NomesPessoa :
        /\ pessoa.criada
        /\ pessoa' = [pessoa EXCEPT !.nome = Trim(nome)]
        /\ ultP' = ResultadoP("set nome", Fin(0), FALSE)

\* p.idade
LerIdade ==
    /\ pessoa.criada
    /\ ultP' = [ResultadoP("get idade", Fin(0), FALSE) EXCEPT !.lido = pessoa.idade]
    /\ UNCHANGED pessoa

\* p.ehAdulto
LerEhAdulto ==
    /\ pessoa.criada
    /\ ultP' = [ResultadoP("get ehAdulto", Fin(0), FALSE) EXCEPT !.adulto = ehAdulto(pessoa)]
    /\ UNCHANGED pessoa

\* p.info
LerInfo ==
    /\ pessoa.criada
    /\ ultP' = [ResultadoP("get info", Fin(0), FALSE) EXCEPT !.info = info(pessoa)]
    /\ UNCHANGED pessoa

NextPessoa ==
    \/ NovaPessoa /\ UNCHANGED <<varsContador, varsSingleton, varsConta, varsAnimal, varsConcorrente>>
    \/ AtribuirIdade /\ UNCHANGED <<varsContador, varsSingleton, varsConta, varsAnimal, varsConcorrente>>
    \/ AtribuirNome /\ UNCHANGED <<varsContador, varsSingleton, varsConta, varsAnimal, varsConcorrente>>
    \/ LerIdade /\ UNCHANGED <<varsContador, varsSingleton, varsConta, varsAnimal, varsConcorrente>>
    \/ LerEhAdulto /\ UNCHANGED <<varsContador, varsSingleton, varsConta, varsAnimal, varsConcorrente>>
    \/ LerInfo /\ UNCHANGED <<varsContador, varsSingleton, varsConta, varsAnimal, varsConcorrente>>

----------------------------------------------------------------------------
(* ConfiguracaoApp, Logger, ContadorGlobal *)

Classes == {"ConfiguracaoApp", "Logger", "ContadorGlobal"}

\* carregarConfiguracoesPadrao: the Map every ConfiguracaoApp starts with
ConfiguracoesPadrao ==
    [chave \in {"theme", "language", "timeout", "debug"} |->
        CASE chave = "theme" -> "dark"
          [] chave = "language" -> "pt-BR"
          [] chave = "timeout" -> "5000"
          [] chave = "debug" -> "false"]

\* the keys, values, levels and messages the callers use
Chaves == {"theme", "debug"}
ValoresConfig == {"light"}
Niveis == {"INFO", "WARN", "ERROR"}
Mensagens == {"m"}
Instantes == {"t"}

\* the object a private constructor builds
NovoObjeto(c) ==
    [classe |-> c,
     configuracoes |-> IF c = "ConfiguracaoApp" THEN ConfiguracoesPadrao ELSE <<>>,
     logs |-> <<>>,
     contador |-> 0]

\* how many times the constructor of class c has run
Construidos(c) == Cardinality({i \in 1..Len(objetos) : objetos[i].classe = c})

\* alvo: the reference the method was called on; ret: the reference or number
\* returned; txt, lista: a returned string or list
ResultadoS(op, c, alvo, ret) ==
    [op |-> op, classe |-> c, alvo |-> alvo, ret |-> ret, txt |-> "", lista |-> <<>>,
     criou |-> FALSE]

InitSingleton ==
    /\ instancia = [c \in Classes |-> 0]
    /\ objetos = <<>>
    /\ refs = [c \in Classes |-> {}]
    /\ ultS = ResultadoS("nenhuma", "ConfiguracaoApp", 0, 0)
    /\ liquido = 0

\* a getInstance without the check of the static field
getInstanceSempreNova(c) ==
    /\ objetos' = Append(objetos, NovoObjeto(c))
    /\ instancia' = [instancia EXCEPT ![c] = Len(objetos) + 1]
    /\ refs' = [refs EXCEPT ![c] = @ \cup {Len(objetos) + 1}]
    /\ ultS' = [ResultadoS("getInstance", c, 0, Len(objetos) + 1) EXCEPT !.criou = TRUE]
    /\ UNCHANGED liquido

\* <Class>.getInstance()
getInstance(c) ==
    IF instancia[c] = 0
    THEN /\ objetos' = Append(objetos, NovoObjeto(c))
         /\ instancia' = [instancia EXCEPT ![c] = Len(objetos) + 1]
         /\ refs' = [refs EXCEPT ![c] = @ \cup {Len(objetos) + 1}]
         /\ ultS' = [ResultadoS("getInstance", c, 0, Len(objetos) + 1) EXCEPT !.criou = TRUE]
         /\ UNCHANGED liquido
    ELSE /\ refs' = [refs EXCEPT ![c] = @ \cup {instancia[c]}]
         /\ ultS' = ResultadoS("getInstance", c, 0, instancia[c])
         /\ UNCHANGED <<instancia, objetos, liquido>>

GetInstance == \E c \in Classes : getInstance(c)

\* config.getConfiguracao(chave)
getConfiguracao ==
    \E r \in refs["ConfiguracaoApp"], chave \in Chaves \cup {"ausente"} :
        /\ ultS' = [ResultadoS("getConfiguracao", "ConfiguracaoApp", r, 0) EXCEPT
                        !.txt = IF chave \in DOMAIN objetos[r].configuracoes
                                THEN objetos[r].configuracoes[chave]
                                ELSE "undefined"]
        /\ UNCHANGED <<instancia, objetos, refs>>
        /\ UNCHANGED liquido

\* config.setConfiguracao(chave, valor)
setConfiguracao ==
    \E r \in refs["ConfiguracaoApp"], chave \in Chaves, valor \in ValoresConfig :
        /\ objetos' = [objetos EXCEPT ![r].configuracoes =
                          [k \in DOMAIN @ \cup {chave} |-> IF k = chave THEN valor ELSE @[k]]]
        /\ ultS' = ResultadoS("setConfiguracao", "ConfiguracaoApp", r, 0)
        /\ UNCHANGED <<instancia, refs>>
        /\ UNCHANGED liquido

\* logger.log(nivel, mensagem), also reached as info / warn / error
log ==
    \E r \in refs["Logger"], nivel \in Niveis, mensagem \in Mensagens,
       timestamp \in Instantes :
        /\ Len(objetos[r].logs) < MaxLogs
        /\ objetos' = [objetos EXCEPT ![r].logs =
                          Append(@, <<timestamp, nivel, mensagem>>)]
        /\ ultS' = [ResultadoS("log", "Logger", r, 0) EXCEPT !.txt = nivel]
        /\ UNCHANGED <<instancia, refs>>
        /\ UNCHANGED liquido

\* logger.getLogs() / logger.exportarLogs()
getLogs ==
    \E r \in refs["Logger"] :
        /\ ultS' = [ResultadoS("getLogs", "Logger", r, 0) EXCEPT !.lista = objetos[r].logs]
        /\ UNCHANGED <<instancia, objetos, refs>>
        /\ UNCHANGED liquido

\* a limparLogs that also drops the cached instance
limparLogsDescartaInstancia ==
    \E r \in refs["Logger"] :
        /\ objetos' = [objetos EXCEPT ![r].logs = <<>>]
        /\ instancia' = [instancia EXCEPT !["Logger"] = 0]
        /\ ultS' = ResultadoS("limparLogs", "Logger", r, 0)
        /\ UNCHANGED refs
        /\ UNCHANGED liquido

\* logger.limparLogs()
limparLogs ==
    \E r \in refs["Logger"] :
        /\ objetos' = [objetos EXCEPT ![r].logs = <<>>]
        /\ ultS' = ResultadoS("limparLogs", "Logger", r, 0)
        /\ UNCHANGED <<instancia, refs>>
        /\ UNCHANGED liquido

\* an incrementar that returns this.contador++ (the value before the increment)
incrementarPosFixado ==
    \E r \in refs["ContadorGlobal"] :
        /\ objetos[r].contador < MaxContador
        /\ objetos' = [objetos EXCEPT ![r].contador = @ + 1]
        /\ ultS' = ResultadoS("incrementar", "ContadorGlobal", r, objetos[r].contador)
        /\ UNCHANGED <<instancia, refs>>
        /\ liquido' = liquido + 1

\* contador.incrementar()
incrementar ==
    \E r \in refs["ContadorGlobal"] :
        /\ objetos[r].contador < MaxContador
        /\ objetos' = [objetos EXCEPT ![r].contador = @ + 1]
        /\ ultS' = ResultadoS("incrementar", "ContadorGlobal", r, objetos[r].contador + 1)
        /\ UNCHANGED <<instancia, refs>>
        /\ liquido' = liquido + 1

\* contador.decrementar()
decrementar ==
    \E r \in refs["ContadorGlobal"] :
        /\ objetos[r].contador > -MaxContador
        /\ objetos' = [objetos EXCEPT ![r].contador = @ - 1]
        /\ ultS' = ResultadoS("decrementar", "ContadorGlobal", r, objetos[r].contador - 1)
        /\ UNCHANGED <<instancia, refs>>
        /\ liquido' = liquido - 1

\* contador.getValor()
getValor ==
    \E r \in refs["ContadorGlobal"] :
        /\ ultS' = ResultadoS("getValor", "ContadorGlobal", r, objetos[r].contador)
        /\ UNCHANGED <<instancia, objetos, refs>>
        /\ UNCHANGED liquido

\* contador.resetar()
resetar ==
    \E r \in refs["ContadorGlobal"] :
        /\ objetos' = [objetos EXCEPT ![r].contador = 0]
        /\ ultS' = ResultadoS("resetar", "ContadorGlobal", r, 0)
        /\ UNCHANGED <<instancia, refs>>
        /\ liquido' = 0

NextSingleton ==
    \/ GetInstance /\ UNCHANGED <<varsContador, varsPessoa, varsConta, varsAnimal, varsConcorrente>>
    \/ getConfiguracao /\ UNCHANGED <<varsContador, varsPessoa, varsConta, varsAnimal, varsConcorrente>>
    \/ setConfiguracao /\ UNCHANGED <<varsContador, varsPessoa, varsConta, varsAnimal, varsConcorrente>>
    \/ log /\ UNCHANGED <<varsContador, varsPessoa, varsConta, varsAnimal, varsConcorrente>>
    \/ getLogs /\ UNCHANGED <<varsContador, varsPessoa, varsConta, varsAnimal, varsConcorrente>>
    \/ limparLogs /\ UNCHANGED <<varsContador, varsPessoa, varsConta, varsAnimal, varsConcorrente>>
    \/ incrementar /\ UNCHANGED <<varsContador, varsPessoa, varsConta, varsAnimal, varsConcorrente>>
    \/ decrementar /\ UNCHANGED <<varsContador, varsPessoa, varsConta, varsAnimal, varsConcorrente>>
    \/ getValor /\ UNCHANGED <<varsContador, varsPessoa, varsConta, varsAnimal, varsConcorrente>>
    \/ resetar /\ UNCHANGED <<varsContador, varsPessoa, varsConta, varsAnimal, varsConcorrente>>

----------------------------------------------------------------------------
(* ContaBancaria *)

\* numeroConta of the two accounts of the example
NumerosConta == {"12345", "67890"}

\* the initial balances and the amounts the callers pass
SaldosIniciais == {Fin(-1), Fin(0), Fin(1), Fin(2), NaN, Infinito}
Valores == {Fin(-1), Fin(0), Fin(1), Fin(2), NaN, Infinito}

SemConta == [criada |-> FALSE, saldo |-> Fin(0)]

ResultadoB(op, origem, destino, valor, erro) ==
    [op |-> op, origem |-> origem, destino |-> destino, valor |-> valor,
     erro |-> erro, antes |-> contas]

InitConta ==
    /\ contas = [c \in NumerosConta |-> SemConta]
    /\ ultB = [op |-> "nenhuma", origem |-> "12345", destino |-> "12345",
               valor |-> Fin(0), erro |-> "", antes |-> [c \in NumerosConta |-> SemConta]]

validarValor(valor) == MaiorNum(valor, Fin(0)) /\ NumberIsFinite(valor)

temSaldoSuficiente(saldo, valor) == MaiorIgualNum(saldo, valor)

\* conta.depositar(valor) on the accounts cs: the error thrown ("": none) and
\* the accounts afterwards
depositar(cs, c, valor) ==
    IF ~validarValor(valor)
    THEN [erro |-> "Valor deve ser positivo", contas |-> cs]
    ELSE [erro |-> "", contas |-> [cs EXCEPT ![c].saldo = Soma(@, valor)]]

\* a sacar without the balance check
sacarSemVerificarSaldo(cs, c, valor) ==
    IF ~validarValor(valor)
    THEN [erro |-> "Valor deve ser positivo", contas |-> cs]
    ELSE [erro |-> "", contas |-> [cs EXCEPT ![c].saldo = Subtrai(@, valor)]]

\* conta.sacar(valor)
sacar(cs, c, valor) ==
    IF ~validarValor(valor)
    THEN [erro |-> "Valor deve ser positivo", contas |-> cs]
    ELSE IF ~temSaldoSuficiente(cs[c].saldo, valor)
         THEN [erro |-> "Saldo insuficiente", contas |-> cs]
         ELSE [erro |-> "", contas |-> [cs EXCEPT ![c].saldo = Subtrai(@, valor)]]

\* a transferir that deposits into the account it withdraws from
transferirDepositaNaOrigem(cs, origem, destino, valor) ==
    LET r == sacar(cs, origem, valor)
    IN IF r.erro # "" THEN r ELSE depositar(r.contas, origem, valor)

\* origem.transferir(valor, destino): sacar, then depositar on the destination;
\* an exception of either ends the call with what was done so far
transferir(cs, origem, destino, valor) ==
    LET r == sacar(cs, origem, valor)
    IN IF r.erro # "" THEN r ELSE depositar(r.contas, destino, valor)

\* the balances stay within the bound of the model
DentroDoLimite(cs) ==
    \A c \in NumerosConta : cs[c].saldo.k = "fin" => cs[c].saldo.n <= MaxSaldo

\* new ContaBancaria(numeroConta, titular, saldoInicial = 0)
NovaConta ==
    \E c \in NumerosConta, saldoInicial \in SaldosIniciais :
        /\ ~contas[c].criada
        /\ contas' = [contas EXCEPT ![c] = [criada |-> TRUE, saldo |-> saldoInicial]]
        /\ ultB' = ResultadoB("new", c, c, saldoInicial, "")

Depositar ==
    \E c \in NumerosConta, valor \in Valores :
        /\ contas[c].criada
        /\ LET r == depositar(contas, c, valor)
           IN /\ DentroDoLimite(r.contas)
              /\ contas' = r.contas
              /\ ultB' = ResultadoB("depositar", c, c, valor, r.erro)

Sacar ==
    \E c \in NumerosConta, valor \in Valores :
        /\ contas[c].criada
        /\ LET r == sacar(contas, c, valor)
           IN /\ contas' = r.contas
              /\ ultB' = ResultadoB("sacar", c, c, valor, r.erro)

Transferir ==
    \E origem \in NumerosConta, destino \in NumerosConta, valor \in Valores :
        /\ contas[origem].criada
        /\ contas[destino].criada
        /\ LET r == transferir(contas, origem, destino, valor)
           IN /\ DentroDoLimite(r.contas)
              /\ contas' = r.contas
              /\ ultB' = ResultadoB("transferir", origem, destino, valor, r.erro)

consultarSaldo ==
    \E c \in NumerosConta :
        /\ contas[c].criada
        /\ ultB' = ResultadoB("consultarSaldo", c, c, contas[c].saldo, "")
        /\ UNCHANGED contas

NextConta ==
    \/ NovaConta /\ UNCHANGED <<varsContador, varsPessoa, varsSingleton, varsAnimal, varsConcorrente>>
    \/ Depositar /\ UNCHANGED <<varsContador, varsPessoa, varsSingleton, varsAnimal, varsConcorrente>>
    \/ Sacar /\ UNCHANGED <<varsContador, varsPessoa, varsSingleton, varsAnimal, varsConcorrente>>
    \/ Transferir /\ UNCHANGED <<varsContador, varsPessoa, varsSingleton, varsAnimal, varsConcorrente>>
    \/ consultarSaldo /\ UNCHANGED <<varsContador, varsPessoa, varsSingleton, varsAnimal, varsConcorrente>>

----------------------------------------------------------------------------
(* Animal, Cachorro, Gato, Vaca, Pato *)

\* the concrete classes, in the order of the array animais
ClassesAnimal == <<"Cachorro", "Gato", "Vaca", "Pato">>

\* the names given to the animals of the array and to those of the calls
NomesAnimais == {"Rex", "Mimi", "Mimosa", "Donald"}
NomesChamada == {"Bobby", "Whiskers"}

\* new <Classe>(nome): the Animal constructor stores the name
NovoAnimal(classe, nome) == [classe |-> classe, nome |-> nome]

\* a Gato whose emitirSom was copied from Cachorro and never changed
emitirSomGatoCopiado(animal) ==
    CASE animal.classe = "Cachorro" -> <<animal.nome, " faz: Au au au!">>
      [] animal.classe = "Gato" -> <<animal.nome, " faz: Au au au!">>
      [] animal.classe = "Vaca" -> <<animal.nome, " faz: Muuuu!">>
      [] animal.classe = "Pato" -> <<animal.nome, " faz: Quack quack!">>

\* animal.emitirSom(): the implementation of the object's own class; the
\* string `${this.nome} faz: ...` is held as the pair <<nome, rest>>
emitirSom(animal) ==
    CASE animal.classe = "Cachorro" -> <<animal.nome, " faz: Au au au!">>
      [] animal.classe = "Gato" -> <<animal.nome, " faz: Miau miau!">>
      [] animal.classe = "Vaca" -> <<animal.nome, " faz: Muuuu!">>
      [] animal.classe = "Pato" -> <<animal.nome, " faz: Quack quack!">>

\* animal.dormir(): Animal's own method, which no subclass overrides
\* (the source writes "esta" with an acute accent)
dormir(animal) == <<animal.nome, " esta dormindo">>

InitAnimal ==
    /\ animais = <<>>
    /\ console = <<>>
    /\ pcA = "inicio"
    /\ iA = 1

\* lines 44-55: the banner, the array and the heading of the first loop
CriarAnimais ==
    \E nomes \in [1..4 -> NomesAnimais] :
        /\ pcA = "inicio"
        /\ animais' = [k \in 1..4 |-> NovoAnimal(ClassesAnimal[k], nomes[k])]
        /\ console' = console \o <<(<<"=== POLIMORFISMO ===", "">>),
                                   (<<"Todos os animais fazendo som:", "">>)>>
        /\ pcA' = "sons"
        /\ iA' = 1

\* lines 56-58: one turn of animais.forEach(animal => console.log(animal.emitirSom()))
LacoEmitirSom ==
    /\ pcA = "sons"
    /\ iA <= Len(animais)
    /\ console' = Append(console, emitirSom(animais[iA]))
    /\ iA' = iA + 1
    /\ UNCHANGED <<animais, pcA>>

\* line 60: the first loop is over
FimLacoEmitirSom ==
    /\ pcA = "sons"
    /\ iA > Len(animais)
    /\ console' = Append(console, <<"Todos os animais dormindo:", "">>)
    /\ pcA' = "dormir"
    /\ iA' = 1
    /\ UNCHANGED animais

\* lines 61-63: one turn of animais.forEach(animal => console.log(animal.dormir()))
LacoDormir ==
    /\ pcA = "dormir"
    /\ iA <= Len(animais)
    /\ console' = Append(console, dormir(animais[iA]))
    /\ iA' = iA + 1
    /\ UNCHANGED <<animais, pcA>>

\* line 70: the second loop is over
FimLacoDormir ==
    /\ pcA = "dormir"
    /\ iA > Len(animais)
    /\ console' = Append(console, <<"Usando funcao polimorfica:", "">>)
    /\ pcA' = "funcao"
    /\ iA' = 1
    /\ UNCHANGED animais

\* lines 66-68 and 71-72: fazerAnimalEmitirSom(new <Classe>(nome)), two calls
fazerAnimalEmitirSom ==
    \E k \in 1..4, nome \in NomesChamada :
        /\ pcA = "funcao"
        /\ iA <= 2
        /\ console' = Append(console, emitirSom(NovoAnimal(ClassesAnimal[k], nome)))
        /\ iA' = iA + 1
        /\ pcA' = IF iA = 2 THEN "fim" ELSE "funcao"
        /\ UNCHANGED animais

NextAnimal ==
    \/ CriarAnimais /\ UNCHANGED <<varsContador, varsPessoa, varsSingleton, varsConta, varsConcorrente>>
    \/ LacoEmitirSom /\ UNCHANGED <<varsContador, varsPessoa, varsSingleton, varsConta, varsConcorrente>>
    \/ FimLacoEmitirSom /\ UNCHANGED <<varsContador, varsPessoa, varsSingleton, varsConta, varsConcorrente>>
    \/ LacoDormir /\ UNCHANGED <<varsContador, varsPessoa, varsSingleton, varsConta, varsConcorrente>>
    \/ FimLacoDormir /\ UNCHANGED <<varsContador, varsPessoa, varsSingleton, varsConta, varsConcorrente>>
    \/ fazerAnimalEmitirSom /\ UNCHANGED <<varsContador, varsPessoa, varsSingleton, varsConta, varsConcorrente>>

----------------------------------------------------------------------------
(* Two interleaved callers of ContadorGlobal and ContadorUsuarios *)

\* Each caller runs ContadorGlobal.getInstance(), incrementar() on the
\* reference it got and new ContadorUsuarios(nome, IDADE_MINIMA), one
\* statement (one read or one write of shared state) per step.
Chamadores == {1, 2}
Secoes == {"init", "contador"}

InitConcorrente ==
    /\ modo = "parado"
    /\ pcT = [t \in Chamadores |-> "parado"]
    /\ localT = [t \in Chamadores |-> [viu |-> FALSE, ref |-> 0, lido |-> 0]]
    /\ tranca = [sec \in Secoes |-> 0]

\* what the concurrent steps leave alone
restoConcorrente ==
    <<ultC, idsDesdeReset, houveReset, refs, ultS, liquido,
      varsPessoa, varsConta, varsAnimal>>

\* entering and leaving a section: a lock only under "exclusao"
PodeEntrar(sec) == modo = "exclusao" => tranca[sec] = 0
Entrar(sec, t) == IF modo = "exclusao" THEN [tranca EXCEPT ![sec] = t] ELSE tranca
Sair(sec) == IF modo = "exclusao" THEN [tranca EXCEPT ![sec] = 0] ELSE tranca

\* the runtime starts the callers, with or without the locks
IniciarChamadores ==
    \E m \in {"livre", "exclusao"} :
        /\ modo = "parado"
        /\ modo' = m
        /\ pcT' = [t \in Chamadores |-> "verificar"]
        /\ UNCHANGED <<localT, tranca, instancia, objetos, totalUsuarios, proximoId,
                       usuarios, restoConcorrente>>

\* a check that never finds the instance
VerificarSemOlhar(t) ==
    /\ pcT[t] = "verificar"
    /\ PodeEntrar("init")
    /\ tranca' = Entrar("init", t)
    /\ localT' = [localT EXCEPT ![t].viu = FALSE]
    /\ pcT' = [pcT EXCEPT ![t] = "criar"]
    /\ UNCHANGED <<modo, instancia, objetos, totalUsuarios, proximoId, usuarios,
                   restoConcorrente>>

\* getInstance: if (!ContadorGlobal.instancia)
Verificar(t) ==
    /\ pcT[t] = "verificar"
    /\ PodeEntrar("init")
    /\ tranca' = Entrar("init", t)
    /\ localT' = [localT EXCEPT ![t].viu = (instancia["ContadorGlobal"] # 0)]
    /\ pcT' = [pcT EXCEPT ![t] = IF instancia["ContadorGlobal"] # 0
                                 THEN "retornar" ELSE "criar"]
    /\ UNCHANGED <<modo, instancia, objetos, totalUsuarios, proximoId, usuarios,
                   restoConcorrente>>

\* getInstance: ContadorGlobal.instancia = new ContadorGlobal()
Criar(t) ==
    /\ pcT[t] = "criar"
    /\ objetos' = Append(objetos, NovoObjeto("ContadorGlobal"))
    /\ instancia' = [instancia EXCEPT !["ContadorGlobal"] = Len(objetos) + 1]
    /\ pcT' = [pcT EXCEPT ![t] = "retornar"]
    /\ UNCHANGED <<modo, localT, tranca, totalUsuarios, proximoId, usuarios,
                   restoConcorrente>>

\* getInstance: return ContadorGlobal.instancia
Retornar(t) ==
    /\ pcT[t] = "retornar"
    /\ localT' = [localT EXCEPT ![t].ref = instancia["ContadorGlobal"]]
    /\ tranca' = Sair("init")
    /\ pcT' = [pcT EXCEPT ![t] = "lerContador"]
    /\ UNCHANGED <<modo, instancia, objetos, totalUsuarios, proximoId, usuarios,
                   restoConcorrente>>

\* incrementar: the read of ++this.contador
LerContador(t) ==
    /\ pcT[t] = "lerContador"
    /\ PodeEntrar("contador")
    /\ tranca' = Entrar("contador", t)
    /\ localT' = [localT EXCEPT ![t].lido = objetos[localT[t].ref].contador]
    /\ pcT' = [pcT EXCEPT ![t] = "escreverContador"]
    /\ UNCHANGED <<modo, instancia, objetos, totalUsuarios, proximoId, usuarios,
                   restoConcorrente>>

\* an increment that writes back the value it read
EscreverContadorSemSomar(t) ==
    /\ pcT[t] = "escreverContador"
    /\ objetos' = [objetos EXCEPT ![localT[t].ref].contador = localT[t].lido]
    /\ tranca' = Sair("contador")
    /\ pcT' = [pcT EXCEPT ![t] = "lerProximoId"]
    /\ UNCHANGED <<modo, localT, instancia, totalUsuarios, proximoId, usuarios,
                   restoConcorrente>>

\* incrementar: the write of ++this.contador
EscreverContador(t) ==
    /\ pcT[t] = "escreverContador"
    /\ objetos' = [objetos EXCEPT ![localT[t].ref].contador = localT[t].lido + 1]
    /\ tranca' = Sair("contador")
    /\ pcT' = [pcT EXCEPT ![t] = "lerProximoId"]
    /\ UNCHANGED <<modo, localT, instancia, totalUsuarios, proximoId, usuarios,
                   restoConcorrente>>

\* constructor: the read of ContadorUsuarios.proximoId++ (the age is valid)
LerProximoId(t) ==
    /\ pcT[t] = "lerProximoId"
    /\ validarIdade(IDADE_MINIMA)
    /\ PodeEntrar("contador")
    /\ tranca' = Entrar("contador", t)
    /\ localT' = [localT EXCEPT ![t].lido = proximoId]
    /\ pcT' = [pcT EXCEPT ![t] = "escreverProximoId"]
    /\ UNCHANGED <<modo, instancia, objetos, totalUsuarios, proximoId, usuarios,
                   restoConcorrente>>

\* constructor: the write of proximoId++ and this.id = (the value read)
EscreverProximoId(t) ==
    /\ pcT[t] = "escreverProximoId"
    /\ proximoId' = localT[t].lido + 1
    /\ usuarios' = Append(usuarios, [id |-> localT[t].lido, nome |-> "Joao",
                                     idade |-> IDADE_MINIMA])
    /\ pcT' = [pcT EXCEPT ![t] = "lerTotal"]
    /\ UNCHANGED <<modo, localT, tranca, instancia, objetos, totalUsuarios,
                   restoConcorrente>>

\* constructor: the read of ContadorUsuarios.totalUsuarios++
LerTotal(t) ==
    /\ pcT[t] = "lerTotal"
    /\ localT' = [localT EXCEPT ![t].lido = totalUsuarios]
    /\ pcT' = [pcT EXCEPT ![t] = "escreverTotal"]
    /\ UNCHANGED <<modo, tranca, instancia, objetos, totalUsuarios, proximoId, usuarios,
                   restoConcorrente>>

\* constructor: the write of totalUsuarios++
EscreverTotal(t) ==
    /\ pcT[t] = "escreverTotal"
    /\ totalUsuarios' = localT[t].lido + 1
    /\ tranca' = Sair("contador")
    /\ pcT' = [pcT EXCEPT ![t] = "fim"]
    /\ UNCHANGED <<modo, localT, instancia, objetos, proximoId, usuarios,
                   restoConcorrente>>

NextConcorrente ==
    \/ IniciarChamadores
    \/ \E t \in Chamadores : Verificar(t)
    \/ \E t \in Chamadores : Criar(t)
    \/ \E t \in Chamadores : Retornar(t)
    \/ \E t \in Chamadores : LerContador(t)
    \/ \E t \in Chamadores : EscreverContador(t)
    \/ \E t \in Chamadores : LerProximoId(t)
    \/ \E t \in Chamadores : EscreverProximoId(t)
    \/ \E t \in Chamadores : LerTotal(t)
    \/ \E t \in Chamadores : EscreverTotal(t)

----------------------------------------------------------------------------
(* Specifications *)

vars == <<varsContador, varsPessoa, varsSingleton, varsConta, varsAnimal,
          varsConcorrente>>

Init ==
    /\ InitContador
    /\ InitPessoa
    /\ InitSingleton
    /\ InitConta
    /\ InitAnimal
    /\ InitConcorrente

\* part_000, first example: the static counters of ContadorUsuarios
SpecContador == Init /\ [][NextContador]_vars

\* part_000, second example: the accessors of Pessoa
SpecPessoa == Init /\ [][NextPessoa]_vars

\* singleton.ts: the three singleton classes
SpecSingleton == Init /\ [][NextSingleton]_vars

\* heranca.ts: ContaBancaria
SpecConta == Init /\ [][NextConta]_vars

\* polimorfismo.ts: the script over Animal and its subclasses
SpecAnimal == Init /\ [][NextAnimal]_vars

\* singleton.ts and part_000 run by two callers, statement by statement
SpecConcorrente == Init /\ [][NextConcorrente]_vars

----------------------------------------------------------------------------
(* Properties of ContadorUsuarios *)

Construcoes == {"new", "criarUsuarioAdulto"}

\* C1: a construction with an age outside [18,120] fails with an error; one
\* with an age inside the range succeeds and increases totalUsuarios by
\* exactly one.
C1_ConstrucaoValidaIdade ==
    ultC.op \in Construcoes =>
        IF ultC.idade < 18 \/ ultC.idade > 120
        THEN ultC.erro
        ELSE ~ultC.erro /\ totalUsuarios = ultC.totalAntes + 1

C1_Witness ==
    /\ ultC.op = "new"
    /\ ultC.idade = 120
    /\ ~ultC.erro
    /\ ultC.totalAntes = 1
    /\ totalUsuarios = 2

\* C2: a construction that fails age validation leaves totalUsuarios and
\* proximoId as they were before it, in whatever state it is attempted.
C2_FalhaSemEfeito ==
    (ultC.op \in Construcoes /\ ultC.erro) =>
        /\ totalUsuarios = ultC.totalAntes
        /\ proximoId = ultC.proximoAntes

C2_Witness ==
    /\ ultC.op = "new"
    /\ ultC.erro
    /\ ultC.idade = 121
    /\ totalUsuarios = 2
    /\ proximoId = 3

\* C3: resetarContador sets totalUsuarios to 0 and proximoId to 1, and the
\* first successful construction after a reset receives the id 1.
C3_ResetVoltaAoInicio ==
    /\ ultC.op = "resetarContador" => (totalUsuarios = 0 /\ proximoId = 1)
    /\ (houveReset /\ Len(idsDesdeReset) >= 1) => idsDesdeReset[1] = 1

C3_Witness ==
    /\ houveReset
    /\ Len(usuarios) = 3
    /\ usuarios[2].id = 2
    /\ ultC.op \in Construcoes
    /\ ~ultC.erro
    /\ ultC.id = 1
    /\ idsDesdeReset = <<1>>

\* C10: a step that is not resetarContador never decreases totalUsuarios or
\* proximoId, and a step that is neither a construction nor resetarContador
\* leaves both unchanged.
C10_MonotonicoSalvoReset ==
    [][/\ ultC'.op # "resetarContador" =>
            (totalUsuarios' >= totalUsuarios /\ proximoId' >= proximoId)
       /\ ultC'.op \notin (Construcoes \cup {"resetarContador"}) =>
            (totalUsuarios' = totalUsuarios /\ proximoId' = proximoId)]_vars

C10_Witness ==
    /\ ultC.op = "compararIdade"
    /\ ultC.ret = 102
    /\ totalUsuarios = 2
    /\ proximoId = 3

\* C15: in every reachable state proximoId = totalUsuarios + 1, and the ids
\* handed out since the last reset (or since the start) are 1, 2, 3, ... in
\* construction order, one per counted user, with no gap and no repeat.
C15_IdsEmSequencia ==
    /\ proximoId = totalUsuarios + 1
    /\ Len(idsDesdeReset) = totalUsuarios
    /\ \A k \in 1..Len(idsDesdeReset) : idsDesdeReset[k] = k

C15_Witness ==
    /\ houveReset
    /\ Len(usuarios) = 2
    /\ usuarios[1].id = 1
    /\ usuarios[2].id = 1
    /\ idsDesdeReset = <<1>>
    /\ ultC.op \in Construcoes
    /\ ultC.erro
    /\ totalUsuarios = 1
    /\ proximoId = 2

----------------------------------------------------------------------------
(* Properties of Pessoa *)

\* C6: assigning a negative or non-integer value to idade throws and leaves
\* the age unchanged; reading idade right after the rejected write returns
\* the value it had before the write.
C6_SetterRejeitaSemAlterar ==
    /\ (ultP.op = "set idade"
         /\ (ultP.valor.k # "fin" \/ ultP.valor.f \/ ultP.valor.n < 0)) =>
            (ultP.erro /\ pessoa.idade = ultP.antes)
    /\ (ultP.op = "get idade" /\ ultP.previa.op = "set idade" /\ ultP.previa.erro) =>
            ultP.lido = ultP.previa.antes

C6_Witness ==
    /\ ultP.op = "get idade"
    /\ ultP.previa.op = "set idade"
    /\ ultP.previa.valor = Fin(-5)
    /\ ultP.previa.erro
    /\ ultP.previa.antes = Fin(31)
    /\ ultP.lido = Fin(31)

\* C12: every read of ehAdulto equals (current idade >= 18), and every read
\* of info is built from the current nome and idade, with the adult marker
\* exactly when idade >= 18, after any accepted and rejected writes.
C12_DerivadosSemCache ==
    /\ pessoa.criada => (pessoa.idade.k = "fin" /\ ~pessoa.idade.f /\ pessoa.idade.n >= 0)
    /\ ultP.op = "get ehAdulto" => (ultP.adulto <=> pessoa.idade.n >= 18)
    /\ ultP.op = "get info" =>
            /\ Len(ultP.info) = 5
            /\ ultP.info[1] = pessoa.nome
            /\ ultP.info[3] = ToString(pessoa.idade.n)
            /\ ultP.info[5] = (IF pessoa.idade.n >= 18 THEN " (adulto)" ELSE "")

C12_Witness ==
    /\ ultP.op = "get info"
    /\ ultP.previa.op = "set idade"
    /\ ~ultP.previa.erro
    /\ ultP.previa.antes = Fin(17)
    /\ ultP.previa.valor = Fin(18)
    /\ pessoa.nome = <<"A", " ", "B">>
    /\ ultP.info = <<(<<"A", " ", "B">>), " - ", "18", " anos", " (adulto)">>

----------------------------------------------------------------------------
(* Properties of the singleton classes *)

\* C4: for each singleton class, all calls to getInstance return the same
\* reference, whatever operations run between them.
C4_MesmaInstancia ==
    \A c \in Classes : Cardinality(refs[c]) <= 1

C4_Witness ==
    /\ ultS.op = "getInstance"
    /\ ultS.classe = "ContadorGlobal"
    /\ ~ultS.criou
    /\ refs["ContadorGlobal"] = {ultS.ret}
    /\ objetos[ultS.ret].contador = 2
    /\ Len(objetos) = 3

\* C5: no object of a class exists before its first getInstance; only a
\* getInstance that finds the static field undefined constructs one; once
\* set, the static field keeps its value across every operation, so the
\* constructor of each class runs exactly once.
C5_UmaConstrucaoPorClasse ==
    [][\A c \in Classes :
          /\ instancia[c] = 0 => Construidos(c) = 0
          /\ instancia[c] # 0 =>
                (instancia'[c] = instancia[c] /\ Construidos(c)' = 1)
          /\ Construidos(c)' # Construidos(c) =>
                (/\ ultS'.op = "getInstance"
                 /\ ultS'.classe = c
                 /\ instancia[c] = 0
                 /\ Construidos(c)' = 1
                 /\ instancia'[c] = ultS'.ret)]_vars

C5_Witness ==
    /\ ultS.op = "limparLogs"
    /\ instancia["Logger"] = ultS.alvo
    /\ Construidos("Logger") = 1
    /\ instancia["ContadorGlobal"] # 0
    /\ Construidos("ContadorGlobal") = 1
    /\ objetos[instancia["ContadorGlobal"]].contador = 1
    /\ instancia["ConfiguracaoApp"] = 0
    /\ Construidos("ConfiguracaoApp") = 0

\* C13: every reference returned by ContadorGlobal.getInstance reads the same
\* counter, whose value is the number of incrementar calls minus the number
\* of decrementar calls since the last resetar (or since creation);
\* incrementar and decrementar return the new value and getValor the
\* current one.
C13_ContadorCompartilhado ==
    /\ \A r \in refs["ContadorGlobal"] : objetos[r].contador = liquido
    /\ ultS.op \in {"incrementar", "decrementar", "getValor"} =>
            (ultS.alvo \in refs["ContadorGlobal"] /\ ultS.ret = liquido)
    /\ ultS.op = "resetar" => liquido = 0

C13_Witness ==
    /\ ultS.op = "decrementar"
    /\ ultS.ret = 1
    /\ liquido = 1
    /\ refs["ContadorGlobal"] = {ultS.alvo}
    /\ objetos[ultS.alvo].contador = 1
    /\ refs["Logger"] # {}

----------------------------------------------------------------------------
(* Properties of ContaBancaria *)

\* C7 as stated, from states in which no balance is negative: transferir of
\* amount v from an account whose balance is at least v decreases the
\* source's balance by v and increases the destination's balance by v.
C7_TransferenciaComoEnunciada ==
    (/\ ultB.op = "transferir"
     /\ \A c \in NumerosConta : MaiorIgualNum(ultB.antes[c].saldo, Fin(0))
     /\ MaiorIgualNum(ultB.antes[ultB.origem].saldo, ultB.valor)) =>
        /\ contas[ultB.origem].saldo = Subtrai(ultB.antes[ultB.origem].saldo, ultB.valor)
        /\ contas[ultB.destino].saldo = Soma(ultB.antes[ultB.destino].saldo, ultB.valor)

\* C7: transferir of a positive finite amount v from an account whose balance
\* is at least v to a different account succeeds, decreases the source's
\* balance by v and increases the destination's balance by v.
C7_TransferenciaMoveValor ==
    (/\ ultB.op = "transferir"
     /\ ultB.valor.k = "fin"
     /\ ultB.valor.n > 0
     /\ ultB.origem # ultB.destino
     /\ MaiorIgualNum(ultB.antes[ultB.origem].saldo, ultB.valor)) =>
        /\ ultB.erro = ""
        /\ contas[ultB.origem].saldo = Subtrai(ultB.antes[ultB.origem].saldo, ultB.valor)
        /\ contas[ultB.destino].saldo = Soma(ultB.antes[ultB.destino].saldo, ultB.valor)

C7_Witness ==
    /\ ultB.op = "transferir"
    /\ ultB.valor = Fin(2)
    /\ ultB.origem = "12345"
    /\ ultB.destino = "67890"
    /\ ultB.antes["12345"].saldo = Fin(3)
    /\ ultB.antes["67890"].saldo = Fin(1)
    /\ contas["12345"].saldo = Fin(1)
    /\ contas["67890"].saldo = Fin(3)

\* C8: a sacar or transferir of more than the balance of the source fails with
\* an error and leaves every balance unchanged, and a transferir that changes
\* the balance of its source has credited its destination.
C8_SaldoInsuficienteSemEfeito ==
    /\ (ultB.op \in {"sacar", "transferir"}
         /\ MaiorNum(ultB.valor, ultB.antes[ultB.origem].saldo)) =>
            (ultB.erro # "" /\ contas = ultB.antes)
    /\ (ultB.op = "transferir" /\ ultB.erro # "") => contas = ultB.antes
    /\ (ultB.op = "transferir" /\ ultB.erro = "" /\ ultB.origem # ultB.destino) =>
            contas[ultB.destino].saldo = Soma(ultB.antes[ultB.destino].saldo, ultB.valor)

C8_Witness ==
    /\ ultB.op = "transferir"
    /\ ultB.valor = Fin(2)
    /\ ultB.origem = "12345"
    /\ ultB.destino = "67890"
    /\ ultB.antes["12345"].saldo = Fin(1)
    /\ ultB.antes["67890"].saldo = Fin(3)
    /\ ultB.erro = "Saldo insuficiente"
    /\ contas = ultB.antes

\* C9 as stated: the balance of every constructed ContaBancaria is
\* non-negative in every reachable state.
C9_SaldoNaoNegativo ==
    \A c \in NumerosConta :
        contas[c].criada => MaiorIgualNum(contas[c].saldo, Fin(0))

----------------------------------------------------------------------------
(* Properties of the Animal hierarchy *)

\* the console lines of the first loop (3..6) and of the second loop (8..11)
LinhaSom(k) == console[2 + k]
LinhaDormir(k) == console[7 + k]

\* C11: the array holds a Cachorro, a Gato, a Vaca and a Pato in this order;
\* the k-th line of the first loop is the k-th animal's name with the sound
\* of its own class, the four lines are pairwise distinct, and the k-th line
\* of the second loop is the k-th animal's name with the base class's text.
C11_DespachoPorSubtipo ==
    LET SomDaClasse == <<" faz: Au au au!", " faz: Miau miau!",
                         " faz: Muuuu!", " faz: Quack quack!">>
    IN /\ pcA # "inicio" =>
            [k \in 1..4 |-> animais[k].classe] = <<"Cachorro", "Gato", "Vaca", "Pato">>
       /\ \A k \in 1..4 :
            Len(console) >= 2 + k => LinhaSom(k) = <<animais[k].nome, SomDaClasse[k]>>
       /\ \A j \in 1..4, k \in 1..4 :
            (j # k /\ Len(console) >= 2 + j /\ Len(console) >= 2 + k) =>
                LinhaSom(j) # LinhaSom(k)
       /\ \A k \in 1..4 :
            Len(console) >= 7 + k => LinhaDormir(k) = <<animais[k].nome, " esta dormindo">>

C11_Witness ==
    /\ pcA = "funcao"
    /\ Len(console) = 12
    /\ [k \in 1..4 |-> animais[k].nome] = <<"Rex", "Mimi", "Mimosa", "Donald">>
    /\ LinhaSom(3) = <<"Mimosa", " faz: Muuuu!">>
    /\ LinhaDormir(4) = <<"Donald", " esta dormindo">>

----------------------------------------------------------------------------
(* Properties of the interleaved callers *)

\* the callers that have finished a statement
Passaram(etapas) == Cardinality({t \in Chamadores : pcT[t] \in etapas})

AposIncrementar ==
    {"lerProximoId", "escreverProximoId", "lerTotal", "escreverTotal", "fim"}
AposProximoId == {"lerTotal", "escreverTotal", "fim"}
AposRetornar == {"lerContador", "escreverContador"} \cup AposIncrementar

\* one instance, returned to every caller, and counters that count every
\* completed increment
UmaInstanciaContagemExata ==
    /\ Construidos("ContadorGlobal") <= 1
    /\ \A t \in Chamadores :
            pcT[t] \in AposRetornar => localT[t].ref = instancia["ContadorGlobal"]
    /\ instancia["ContadorGlobal"] # 0 =>
            objetos[instancia["ContadorGlobal"]].contador = Passaram(AposIncrementar)
    /\ proximoId = 1 + Passaram(AposProximoId)
    /\ totalUsuarios = Passaram({"fim"})
    /\ \A i \in 1..Len(usuarios) : usuarios[i].id = i

\* C14: with the check and the creation, and the read and the write of a
\* counter, as separate interleaved steps, making the initialization section
\* and the counter sections mutually exclusive keeps one instance and exact
\* counts; without it (witness) two instances are created and an increment
\* is lost.
C14_ExclusaoRestaura ==
    modo = "exclusao" => UmaInstanciaContagemExata

C14_Witness ==
    /\ modo = "livre"
    /\ \A t \in Chamadores : pcT[t] = "fim"
    /\ Construidos("ContadorGlobal") = 2
    /\ localT[1].ref # localT[2].ref
    /\ totalUsuarios = 1
    /\ proximoId = 2

====
